---- MODULE Spec2Model ----
(***************************************************************************)
(* Model of server.js of enfermeria2.0.  The file holds two servers:       *)
(*   - the services API (Service model, /api/services, lines 1-214);       *)
(*   - the billing API (Servicio and Agenda models, /api/servicios,        *)
(*     /api/reporte, /api/agenda, lines 216-552).                          *)
(* A collection is a function from the ids of its documents to the         *)
(* documents.  A request is one action; the store operation it awaits is   *)
(* atomic at the database, and the parameter dbOk says whether the store   *)
(* answered (TRUE) or the awaited promise rejected (FALSE).                *)
(***************************************************************************)
EXTENDS Integers, Sequences, FiniteSets, TLC

VARIABLES
    services,     \* collection 'nursing_services' (Service model)
    resp,         \* the last HTTP response, with the request it answers
    gone,         \* service ids deleted with 204 and not created since
    servicios,    \* collection of the Servicio model
    agenda,       \* collection of the Agenda model
    bulk,         \* position of the DELETE /api/servicios handler in flight
    bulkLog,      \* what the last DELETE /api/servicios handler met: documents
                  \* in a collection it deleted, documents made in one after
                  \* it deleted it, its 200; forgotten when a cita is made
                  \* after the handler ended
    rep           \* state of the GET /api/reporte/general handler

vars == <<services, resp, gone, servicios, agenda, bulk, bulkLog, rep>>

-----------------------------------------------------------------------------
(* Bounds *)

NumIds == 2             \* well-formed ObjectIds are 1..NumIds

ObjectIds == 1..NumIds

\* A request parameter :id that does not cast to an ObjectId.
MalformedId == 0

RequestIds == ObjectIds \cup {MalformedId}

WellFormed(id) == id \in ObjectIds

-----------------------------------------------------------------------------
(* JSON values of a request body and of a stored document *)

Undefined == [k |-> "undefined"]
Null == [k |-> "null"]
NotCastable == [k |-> "uncastable"]      \* e.g. "abc" for a Number or a Date
Num(n) == [k |-> "number", n |-> n]
DateVal(d) == [k |-> "date", d |-> d]
Bool(b) == [k |-> "boolean", b |-> b]

\* A string is lead spaces, core characters (the first and the last of them
\* no spaces) and trail spaces; a string of spaces alone has core = 0 and
\* its spaces in lead.
Str(l, c, t) == [k |-> "string", lead |-> l, core |-> c, trail |-> t]

StrLength(s) == s.lead + s.core + s.trail

\* String.prototype.trim, the setter of the schema option trim: true
Trim(s) == Str(0, s.core, 0)

IsNullish(v) == v.k \in {"undefined", "null"}

-----------------------------------------------------------------------------
(* ServiceSchema (services API) *)

MaxLength == 100
DefaultPrice == 20000
MinPrice == 0
DefaultActivityLength == 22        \* 'Baño asistido en ducha'

ServiceFields ==
    <<"patientName", "familyName", "activity", "visitDate", "price", "isCompleted">>

NoMessage == ""

\* One entry per path: its type, the message of its required validator (none
\* when the path is not required), whether it is trimmed, its maxlength and
\* min validators (has* says whether the path has one) and its default.
ServiceSchema ==
    [patientName |-> [type |-> "String",
                      required |-> "El nombre del paciente es obligatorio.",
                      trim |-> TRUE, hasMaxlength |-> TRUE, hasMin |-> FALSE,
                      minMessage |-> NoMessage, default |-> Undefined],
     familyName  |-> [type |-> "String", required |-> NoMessage,
                      trim |-> TRUE, hasMaxlength |-> TRUE, hasMin |-> FALSE,
                      minMessage |-> NoMessage, default |-> Undefined],
     activity    |-> [type |-> "String", required |-> NoMessage,
                      trim |-> TRUE, hasMaxlength |-> TRUE, hasMin |-> FALSE,
                      minMessage |-> NoMessage,
                      default |-> Str(0, DefaultActivityLength, 0)],
     visitDate   |-> [type |-> "Date",
                      required |-> "La fecha de la visita es obligatoria.",
                      trim |-> FALSE, hasMaxlength |-> FALSE, hasMin |-> FALSE,
                      minMessage |-> NoMessage, default |-> Undefined],
     price       |-> [type |-> "Number",
                      required |-> "El precio es obligatorio.",
                      trim |-> FALSE, hasMaxlength |-> FALSE, hasMin |-> TRUE,
                      minMessage |-> "El precio no puede ser negativo.",
                      default |-> Num(DefaultPrice)],
     isCompleted |-> [type |-> "Boolean", required |-> NoMessage,
                      trim |-> FALSE, hasMaxlength |-> FALSE, hasMin |-> FALSE,
                      minMessage |-> NoMessage, default |-> Bool(FALSE)]]

\* Messages mongoose builds itself: a failed cast and the maxlength validator,
\* which the schema gives no message of its own.
CastMessage(path) == "Cast failed for path " \o path
MaxlengthMessage(path) == "Path " \o path \o " is longer than the maximum allowed length (100)."

\* The setters of a path applied to a value given for it.
ApplySetters(path, v) ==
    IF v.k = "string" /\ ServiceSchema[path].trim THEN Trim(v) ELSE v

\* new Service(req.body): a path the body leaves out takes its default, a
\* value given goes through the path's setters.
NewService(body) ==
    [path \in DOMAIN body |->
        IF body[path] = Undefined THEN ServiceSchema[path].default
        ELSE ApplySetters(path, body[path])]

\* The required validator: null, undefined and the empty string fail.
FailsRequired(v) == IsNullish(v) \/ (v.k = "string" /\ StrLength(v) = 0)

FailsMaxlength(v) == v.k = "string" /\ StrLength(v) > MaxLength

\* Mutant of FailsMin: the boundary 0 is refused too.
FailsMinInclusive(v) == v.k = "number" /\ v.n <= MinPrice

FailsMin(v) == v.k = "number" /\ v.n < MinPrice

\* The error of one path: at most one, the first validator that fails, in
\* the order of the schema (required, then maxlength or min).  A value that
\* did not cast is reported and not validated.
PathError(path, v) ==
    LET sch == ServiceSchema[path] IN
    IF v.k = "uncastable" THEN CastMessage(path)
    ELSE IF sch.required # NoMessage /\ FailsRequired(v) THEN sch.required
    ELSE IF sch.hasMaxlength /\ FailsMaxlength(v) THEN MaxlengthMessage(path)
    ELSE IF sch.hasMin /\ FailsMin(v) THEN sch.minMessage
    ELSE NoMessage

\* Mutant of ErrorMessages: the first message alone is listed.
FirstErrorMessage(doc, paths) ==
    LET failing == SelectSeq(paths, LAMBDA path : PathError(path, doc[path]) # NoMessage)
    IN IF failing = <<>> THEN <<>> ELSE <<PathError(failing[1], doc[failing[1]])>>

\* Object.values(error.errors).map(val => val.message): error.errors is keyed
\* by path, hence one message for each path in error.
ErrorMessages(doc, paths) ==
    LET Pick(i) == PathError(paths[i], doc[paths[i]])
        RECURSIVE Collect(_)
        Collect(i) == IF i > Len(paths) THEN <<>>
                      ELSE IF Pick(i) = NoMessage THEN Collect(i + 1)
                      ELSE <<Pick(i)>> \o Collect(i + 1)
    IN Collect(1)

\* document.validate() at save: every path of the schema.
ValidateService(doc) == ErrorMessages(doc, ServiceFields)

-----------------------------------------------------------------------------
(* Requests of the services API *)

PatientNames == {Undefined, Str(2, 0, 0), Str(1, 99, 1), Str(0, 101, 0)}
FamilyNames == {Undefined, Str(0, 101, 0)}
VisitDates == {Undefined, DateVal(1)}
Prices == {Undefined, Null, Num(-1), Num(0), NotCastable}

\* A body every field of which is accepted.
ValidBody ==
    [patientName |-> Str(1, 99, 1), familyName |-> Undefined, activity |-> Undefined,
     visitDate |-> DateVal(1), price |-> Num(0), isCompleted |-> Undefined]

\* A body with the three required fields in violation at once.
WorstBody ==
    [patientName |-> Undefined, familyName |-> Undefined, activity |-> Undefined,
     visitDate |-> Undefined, price |-> Num(-1), isCompleted |-> Undefined]

Differences(a, b) == Cardinality({path \in DOMAIN a : a[path] # b[path]})

\* The bodies of the requests: ValidBody with one field changed, and the
\* bodies between ValidBody and WorstBody.
ServiceBodies ==
    {body \in [patientName : PatientNames, familyName : FamilyNames,
               activity : {Undefined}, visitDate : VisitDates, price : Prices,
               isCompleted : {Undefined}] :
        \/ Differences(body, ValidBody) <= 1
        \/ \A path \in DOMAIN body : body[path] \in {ValidBody[path], WorstBody[path]}}

EmptyBody == [k |-> "empty"]                \* res.send() with no argument
Message(m) == [k |-> "message", message |-> m]
ValidationFailure(msgs) ==
    [k |-> "message", message |-> "Error de validación", errors |-> msgs]

\* A response, with the request it answers: the route, the :id (or the _id of
\* the document a POST makes), the body of the request and whether the store
\* answered it.
Response(op, id, body, dbOk, status, json) ==
    [op |-> op, id |-> id, body |-> body, dbOk |-> dbOk, status |-> status, json |-> json]

NoResponse == Response("none", MalformedId, Undefined, TRUE, 0, EmptyBody)

\* Mutant of FindById: findOne() with no filter, any document of the collection.
FindAny(coll, id) ==
    IF DOMAIN coll = {} THEN Null ELSE coll[CHOOSE i \in DOMAIN coll : TRUE]

\* Model.findById: the document, or null
FindById(coll, id) == IF id \in DOMAIN coll THEN coll[id] ELSE Null

\* Mutant of Without: nothing is deleted.
WithoutNone(coll, id) == coll

\* The collection after deleteOne({_id: id})
Without(coll, id) == [i \in DOMAIN coll \ {id} |-> coll[i]]

\* The collection after insertOne of doc under _id id
With(coll, id, doc) == [i \in DOMAIN coll \cup {id} |-> IF i = id THEN doc ELSE coll[i]]

billingIdle == UNCHANGED <<servicios, agenda, bulk, bulkLog, rep>>

\* POST /api/services.  id is the _id of the new document, the one of the
\* body or a generated one; a generated one is in no collection, and an _id
\* of the body that is in the collection fails the insert (duplicate key).
PostService(body, id, dbOk) ==
    LET newService == NewService(body)
        messages == ValidateService(newService)
    IN
    /\ billingIdle
    /\ IF messages # <<>> THEN
           /\ resp' = Response("POST /api/services", id, body, dbOk, 400, ValidationFailure(messages))
           /\ UNCHANGED <<services, gone>>
       ELSE IF ~dbOk \/ id \in DOMAIN services THEN
           /\ resp' = Response("POST /api/services", id, body, dbOk, 500,
                               Message("Error interno del servidor"))
           /\ UNCHANGED <<services, gone>>
       ELSE
           /\ services' = With(services, id, newService)
           /\ gone' = gone \ {id}
           /\ resp' = Response("POST /api/services", id, body, dbOk, 201, newService)

\* GET /api/services/:id
GetService(id, dbOk) ==
    LET service == FindById(services, id) IN
    /\ billingIdle
    /\ UNCHANGED <<services, gone>>
    /\ resp' =
         IF ~WellFormed(id) THEN
             Response("GET /api/services/:id", id, Undefined, dbOk, 400,
                      Message("ID de servicio no válido."))
         ELSE IF ~dbOk THEN
             Response("GET /api/services/:id", id, Undefined, dbOk, 500,
                      Message("Error al obtener el servicio"))
         ELSE IF service = Null THEN
             Response("GET /api/services/:id", id, Undefined, dbOk, 404,
                      Message("Servicio no encontrado."))
         ELSE Response("GET /api/services/:id", id, Undefined, dbOk, 200, service)

\* DELETE /api/services/:id
DeleteService(id, dbOk) ==
    LET deletedService == FindById(services, id) IN
    /\ billingIdle
    /\ IF ~WellFormed(id) THEN
           /\ resp' = Response("DELETE /api/services/:id", id, Undefined, dbOk, 400,
                               Message("ID de servicio no válido para eliminar."))
           /\ UNCHANGED <<services, gone>>
       ELSE IF ~dbOk THEN
           /\ resp' = Response("DELETE /api/services/:id", id, Undefined, dbOk, 500,
                               Message("Error al eliminar el servicio"))
           /\ UNCHANGED <<services, gone>>
       ELSE IF deletedService = Null THEN
           /\ resp' = Response("DELETE /api/services/:id", id, Undefined, dbOk, 404,
                               Message("Servicio no encontrado para eliminar."))
           /\ UNCHANGED <<services, gone>>
       ELSE
           /\ services' = Without(services, id)
           /\ gone' = gone \cup {id}
           /\ resp' = Response("DELETE /api/services/:id", id, Undefined, dbOk, 204, EmptyBody)

\* The update findByIdAndUpdate sends for a body: $set of the paths the body
\* gives, each through its setters.
CastUpdate(body) ==
    [path \in DOMAIN body |->
        IF body[path] = Undefined THEN Undefined ELSE ApplySetters(path, body[path])]

\* A value of the update that does not cast rejects the query with a CastError.
UpdateCastFails(update) == \E path \in DOMAIN update : update[path].k = "uncastable"

\* runValidators: true validates the paths of $set, and only them.
ValidateUpdate(update) ==
    ErrorMessages(update, SelectSeq(ServiceFields, LAMBDA path : update[path] # Undefined))

\* The document after $set
ApplyUpdate(doc, update) ==
    [path \in DOMAIN doc |->
        IF update[path] = Undefined THEN doc[path] ELSE update[path]]

\* PUT /api/services/:id.  The id and the update are cast, then the update is
\* validated, then the store is asked; the catch answers 400 to a
\* ValidationError alone, so a CastError ends in the 500 branch.
PutService(id, body, dbOk) ==
    LET update == CastUpdate(body)
        messages == ValidateUpdate(update)
        found == FindById(services, id)
    IN
    /\ billingIdle
    /\ UNCHANGED gone
    /\ IF ~WellFormed(id) \/ UpdateCastFails(update) THEN
           /\ resp' = Response("PUT /api/services/:id", id, body, dbOk, 500,
                               Message("Error al actualizar el servicio"))
           /\ UNCHANGED services
       ELSE IF messages # <<>> THEN
           /\ resp' = Response("PUT /api/services/:id", id, body, dbOk, 400,
                               ValidationFailure(messages))
           /\ UNCHANGED services
       ELSE IF ~dbOk THEN
           /\ resp' = Response("PUT /api/services/:id", id, body, dbOk, 500,
                               Message("Error al actualizar el servicio"))
           /\ UNCHANGED services
       ELSE IF found = Null THEN
           /\ resp' = Response("PUT /api/services/:id", id, body, dbOk, 404,
                               Message("Servicio no encontrado para actualizar."))
           /\ UNCHANGED services
       ELSE
           /\ services' = [services EXCEPT ![id] = ApplyUpdate(found, update)]
           /\ resp' = Response("PUT /api/services/:id", id, body, dbOk, 200,
                               ApplyUpdate(found, update))

-----------------------------------------------------------------------------
(* The services API *)

Init ==
    /\ services = <<>>
    /\ resp = NoResponse
    /\ gone = {}
    /\ servicios = <<>>
    /\ agenda = <<>>
    /\ bulk = "idle"
    /\ bulkLog = {}
    /\ rep = Undefined

NextServices ==
    \/ \E body \in ServiceBodies, id \in ObjectIds, dbOk \in BOOLEAN :
           PostService(body, id, dbOk)
    \/ \E id \in RequestIds, dbOk \in BOOLEAN : GetService(id, dbOk)
    \/ \E id \in RequestIds, body \in ServiceBodies, dbOk \in BOOLEAN :
           PutService(id, body, dbOk)
    \/ \E id \in RequestIds, dbOk \in BOOLEAN : DeleteService(id, dbOk)

SpecServices == Init /\ [][NextServices]_vars

-----------------------------------------------------------------------------
(* Properties of the services API *)

\* coll with the document of id taken out and every other document as it was
RemovedExactly(before, after, id) ==
    /\ DOMAIN after = DOMAIN before \ {id}
    /\ \A other \in DOMAIN after : after[other] = before[other]

\* C1: DELETE /api/services/:id of an id that is in the store responds 204
\* with an empty body and removes exactly that record; a GET of an id that
\* was deleted and not created since responds 404 (the store answering).
C1_DeleteThenNotFound ==
    [][/\ (/\ resp'.op = "DELETE /api/services/:id"
           /\ resp'.id \in DOMAIN services
           /\ resp'.dbOk)
          => /\ resp'.status = 204
             /\ resp'.json = EmptyBody
             /\ RemovedExactly(services, services', resp'.id)
       /\ (/\ resp'.op = "GET /api/services/:id"
           /\ resp'.id \in gone
           /\ resp'.dbOk)
          => resp'.status = 404]_vars

\* A deleted id was fetched, and another record is still in the store.
C1_Witness ==
    /\ resp.op = "GET /api/services/:id"
    /\ resp.id \in gone
    /\ resp.status = 404
    /\ services # <<>>

\* C3: GET /api/services/:id responds 400 to a malformed id, 404 to a
\* well-formed id that is not in the store and 200 with the stored document
\* to an id that is in it (the store answering), and never changes the store.
C3_GetOne ==
    [][resp'.op = "GET /api/services/:id"
       => /\ services' = services
          /\ ~WellFormed(resp'.id) => resp'.status = 400
          /\ (WellFormed(resp'.id) /\ resp'.dbOk /\ resp'.id \notin DOMAIN services)
             => resp'.status = 404
          /\ (WellFormed(resp'.id) /\ resp'.dbOk /\ resp'.id \in DOMAIN services)
             => (resp'.status = 200 /\ resp'.json = services[resp'.id])]_vars

\* A stored document was fetched while an other id is absent from the store.
C3_Witness ==
    /\ resp.op = "GET /api/services/:id"
    /\ resp.status = 200
    /\ resp.id \in DOMAIN services
    /\ resp.json = services[resp.id]
    /\ DOMAIN services # ObjectIds

\* The body breaks a constraint of the schema (a value that does not cast is
\* no constraint violation).
ViolatesConstraint(update) ==
    \E path \in DOMAIN update :
        /\ update[path] \notin {Undefined, NotCastable}
        /\ LET v == IF update[path].k = "string" THEN Trim(update[path]) ELSE update[path]
           IN \/ (path \in {"patientName", "visitDate", "price"} /\ v = Null)
              \/ (path = "patientName" /\ v.k = "string" /\ v.core = 0)
              \/ (v.k = "string" /\ v.core > MaxLength)
              \/ (path = "price" /\ v.k = "number" /\ v.n < 0)

Castable(body) == \A path \in DOMAIN body : body[path] # NotCastable

\* C4: PUT /api/services/:id responds 200 with the post-update document when
\* the id exists and the body is valid, 404 when the well-formed id is absent,
\* 400 on a constraint-violating body or a malformed id; a 404 or a 400
\* leaves the store as it was.
C4_PutOutcomes ==
    [][(resp'.op = "PUT /api/services/:id" /\ resp'.dbOk /\ Castable(resp'.body))
       => /\ ~WellFormed(resp'.id) => resp'.status = 400
          /\ (WellFormed(resp'.id) /\ ViolatesConstraint(resp'.body))
             => resp'.status = 400
          /\ (/\ WellFormed(resp'.id)
              /\ ~ViolatesConstraint(resp'.body)
              /\ resp'.id \notin DOMAIN services)
             => resp'.status = 404
          /\ (/\ WellFormed(resp'.id)
              /\ ~ViolatesConstraint(resp'.body)
              /\ resp'.id \in DOMAIN services)
             => /\ resp'.status = 200
                /\ resp'.json = services'[resp'.id]
          /\ resp'.status \in {400, 404} => services' = services]_vars

PriceMessage == "El precio no puede ser negativo."

InList(m, list) == \E i \in 1..Len(list) : list[i] = m

\* C5: POST /api/services with a negative price responds 400 with the price
\* message in the list and stores nothing; with price 0 and the other fields
\* valid it responds 201 and stores the record (the store answering, the _id
\* not taken).
C5_PriceBoundary ==
    [][resp'.op = "POST /api/services"
       => /\ (resp'.body.price.k = "number" /\ resp'.body.price.n < 0)
             => /\ resp'.status = 400
                /\ InList(PriceMessage, resp'.json.errors)
                /\ services' = services
          /\ (/\ resp'.body = [ValidBody EXCEPT !.price = Num(0)]
              /\ resp'.dbOk
              /\ resp'.id \notin DOMAIN services)
             => /\ resp'.status = 201
                /\ DOMAIN services' = DOMAIN services \cup {resp'.id}
                /\ services'[resp'.id].price = Num(0)
                /\ resp'.json = services'[resp'.id]]_vars

\* Price -1 alone was refused while a record of price 0 is in the store.
C5_Witness ==
    /\ resp.op = "POST /api/services"
    /\ resp.body = [ValidBody EXCEPT !.price = Num(-1)]
    /\ resp.status = 400
    /\ resp.json.errors = <<PriceMessage>>
    /\ \E id \in DOMAIN services : services[id].price = Num(0)

PatientNameMessage == "El nombre del paciente es obligatorio."

\* The paths of the body whose value the schema refuses.
ViolatedPaths(body) ==
    {path \in DOMAIN body : PathError(path, NewService(body)[path]) # NoMessage}

\* C6: POST /api/services with no patientName, or one that is empty after
\* trimming, and the other fields valid responds 400 with exactly the message
\* of patientName and leaves the store unchanged; a validation failure lists
\* one message for each violated field.
C6_OneMessagePerField ==
    [][resp'.op = "POST /api/services"
       => /\ (\E name \in {Undefined, Str(2, 0, 0)} :
                 resp'.body = [ValidBody EXCEPT !.patientName = name])
             => /\ resp'.status = 400
                /\ resp'.json.errors = <<PatientNameMessage>>
                /\ services' = services
          /\ ViolatedPaths(resp'.body) # {}
             => /\ resp'.status = 400
                /\ Len(resp'.json.errors) = Cardinality(ViolatedPaths(resp'.body))
                /\ services' = services]_vars

\* A body without patientName was refused with its one message, the store
\* holding a record.
C6_Witness ==
    /\ resp.op = "POST /api/services"
    /\ resp.body = [ValidBody EXCEPT !.patientName = Undefined]
    /\ resp.status = 400
    /\ resp.json.errors = <<PatientNameMessage>>
    /\ services # <<>>

-----------------------------------------------------------------------------
(* ServicioSchema, ActividadSchema and AgendaSchema (billing API) *)

\* A string given by its text, for the path with an enum.
Word(s) == [k |-> "string", text |-> s]

Conceptos == {"Higiene", "Medicación", "Acompañamiento", "Otros"}

ServicioRequired ==
    <<"fecha", "hora", "nombreFamiliar", "nombrePaciente", "nombreAuxiliar", "concepto">>

DefaultPrecio == 0
DefaultTotal == 0

\* An element of actividades as the body gives it
Actividad(descripcion, precio) == [descripcion |-> descripcion, precio |-> precio]

\* new Actividad: precio takes its default
NewActividad(a) ==
    [descripcion |-> a.descripcion,
     precio |-> IF a.precio = Undefined THEN Num(DefaultPrecio) ELSE a.precio]

\* new Servicio(req.body): precio and total take their defaults, every
\* element of actividades is cast to a subdocument.
NewServicio(body) ==
    [body EXCEPT
        !.precio = IF @ = Undefined THEN Num(DefaultPrecio) ELSE @,
        !.total = IF @ = Undefined THEN Num(DefaultTotal) ELSE @,
        !.actividades = [i \in DOMAIN @ |-> NewActividad(@[i])]]

\* required: true on a String: null, undefined and '' fail.
MissingString(v) ==
    \/ IsNullish(v)
    \/ (v.k = "string" /\ "text" \in DOMAIN v /\ v.text = "")
    \/ (v.k = "string" /\ "core" \in DOMAIN v /\ StrLength(v) = 0)

\* The paths of a Servicio in error: a required path with no value, a concepto
\* out of the enum, a number that did not cast, an activity with no
\* descripcion.
ServicioErrors(doc) ==
    {ServicioRequired[i] : i \in {j \in DOMAIN ServicioRequired :
                                     MissingString(doc[ServicioRequired[j]])}}
    \cup (IF doc.concepto.k = "string" /\ doc.concepto.text \notin Conceptos
          THEN {"concepto"} ELSE {})
    \cup {path \in {"precio", "total"} : doc[path] = NotCastable}
    \cup (IF \E i \in DOMAIN doc.actividades :
                 \/ MissingString(doc.actividades[i].descripcion)
                 \/ doc.actividades[i].precio = NotCastable
          THEN {"actividades"} ELSE {})

\* new Agenda(req.body)
NewAgenda(body) ==
    [body EXCEPT !.realizado = IF @ = Undefined THEN Bool(FALSE) ELSE @]

\* The paths of an Agenda in error: title and start are required.
AgendaErrors(doc) ==
    (IF MissingString(doc.title) THEN {"title"} ELSE {})
    \cup (IF IsNullish(doc.start) THEN {"start"} ELSE {})

-----------------------------------------------------------------------------
(* Requests of the billing API *)

servicesIdle == UNCHANGED <<services, gone>>

ErrorResponse(m, error) == [k |-> "message", message |-> m, error |-> error]

ServicioBase ==
    [fecha |-> Str(0, 10, 0), hora |-> Str(0, 5, 0), nombreFamiliar |-> Str(0, 3, 0),
     nombrePaciente |-> Str(0, 3, 0), nombreAuxiliar |-> Str(0, 3, 0),
     concepto |-> Word("Higiene"), precio |-> Num(10), total |-> Undefined,
     firma |-> Undefined, actividades |-> <<>>]

\* POST /api/servicios: every failure, of the validation or of the store,
\* ends in the one catch and its 400.
PostServicio(body, id, dbOk) ==
    LET newServicio == NewServicio(body)
        errors == ServicioErrors(newServicio)
    IN
    /\ servicesIdle
    /\ UNCHANGED <<agenda, bulk, rep>>
    /\ IF errors # {} THEN
           /\ resp' = Response("POST /api/servicios", id, body, dbOk, 400,
                               ErrorResponse("Error al crear servicio", errors))
           /\ UNCHANGED <<servicios, bulkLog>>
       ELSE IF ~dbOk \/ id \in DOMAIN servicios THEN
           /\ resp' = Response("POST /api/servicios", id, body, dbOk, 400,
                               ErrorResponse("Error al crear servicio", {"store"}))
           /\ UNCHANGED <<servicios, bulkLog>>
       ELSE
           /\ servicios' = With(servicios, id, newServicio)
           /\ bulkLog' = IF bulk = "idle" THEN bulkLog
                         ELSE bulkLog \cup {"servicio during"}
           /\ resp' = Response("POST /api/servicios", id, body, dbOk, 201, newServicio)

\* value || 0 of a Number path: 0 for null and for 0
OrZero(v) == IF v.k = "number" THEN v.n ELSE 0

GroupSize == 1000

\* The digit groups of a natural number, the most significant first
RECURSIVE Groups(_)
Groups(n) == IF n < GroupSize THEN <<n>> ELSE Groups(n \div GroupSize) \o <<n % GroupSize>>

\* Number.prototype.toLocaleString, grouping by thousands: the sign and the
\* digit groups, 20000 as <<20, 0>> for "20,000".
ToLocaleString(n) ==
    [negative |-> n < 0, groups |-> Groups(IF n < 0 THEN -n ELSE n)]

\* The text the individual report writes for a Servicio, top to bottom.
IndividualReport(servicio) ==
    [k |-> "pdf",
     paciente |-> servicio.nombrePaciente,
     auxiliar |-> servicio.nombreAuxiliar,
     concepto |-> servicio.concepto,
     familiar |-> servicio.nombreFamiliar,
     base |-> ToLocaleString(OrZero(servicio.precio)),
     actividades |-> [i \in DOMAIN servicio.actividades |->
                          servicio.actividades[i].descripcion],
     total |-> ToLocaleString(OrZero(servicio.total)),
     firma |-> IF servicio.firma = Undefined THEN Word("(Firma no disponible)")
               ELSE servicio.firma]

\* GET /api/reporte/individual/:id: a malformed id ends in the catch and its
\* 500, like a failure of the store.
ReporteIndividual(id, dbOk) ==
    LET servicio == FindById(servicios, id) IN
    /\ servicesIdle
    /\ UNCHANGED <<servicios, agenda, bulk, bulkLog, rep>>
    /\ resp' =
         IF ~WellFormed(id) \/ ~dbOk THEN
             Response("GET /api/reporte/individual/:id", id, Undefined, dbOk, 500,
                      Message("Error interno al generar el reporte."))
         ELSE IF servicio = Null THEN
             Response("GET /api/reporte/individual/:id", id, Undefined, dbOk, 404,
                      Message("Servicio no encontrado"))
         ELSE Response("GET /api/reporte/individual/:id", id, Undefined, dbOk, 200,
                       IndividualReport(servicio))

\* DELETE /api/servicios, first await: Servicio.deleteMany({})
BulkDeleteServicios(dbOk) ==
    /\ bulk = "idle"
    /\ servicesIdle
    /\ UNCHANGED <<agenda, rep>>
    /\ IF dbOk THEN
           /\ servicios' = <<>>
           /\ bulk' = "servicios deleted"
           /\ bulkLog' = IF servicios # <<>> THEN {"had servicios"} ELSE {}
           /\ UNCHANGED resp
       ELSE
           /\ resp' = Response("DELETE /api/servicios", MalformedId, Undefined, dbOk, 500,
                               ErrorResponse("Error al eliminar todos los servicios",
                                             {"Servicio.deleteMany"}))
           /\ UNCHANGED <<servicios, bulk, bulkLog>>

\* Mutant of BulkDeleteAgenda: the citas are not deleted.
BulkDeleteAgendaSkipped(dbOk) ==
    /\ bulk = "servicios deleted"
    /\ UNCHANGED <<services, gone, servicios, rep, agenda, resp, bulkLog>>
    /\ bulk' = "agenda deleted"

\* DELETE /api/servicios, second await: Agenda.deleteMany({})
BulkDeleteAgenda(dbOk) ==
    /\ bulk = "servicios deleted"
    /\ servicesIdle
    /\ UNCHANGED <<servicios, rep>>
    /\ IF dbOk THEN
           /\ agenda' = <<>>
           /\ bulk' = "agenda deleted"
           /\ bulkLog' = IF agenda # <<>> THEN bulkLog \cup {"had citas"} ELSE bulkLog
           /\ UNCHANGED resp
       ELSE
           /\ resp' = Response("DELETE /api/servicios", MalformedId, Undefined, dbOk, 500,
                               ErrorResponse("Error al eliminar todos los servicios",
                                             {"Agenda.deleteMany"}))
           /\ bulk' = "idle"
           /\ UNCHANGED <<agenda, bulkLog>>

\* DELETE /api/servicios, after the second await: the 200
BulkDeleteRespond ==
    /\ bulk = "agenda deleted"
    /\ servicesIdle
    /\ UNCHANGED <<servicios, agenda, rep>>
    /\ bulk' = "idle"
    /\ bulkLog' = bulkLog \cup {"completed"}
    /\ resp' = Response("DELETE /api/servicios", MalformedId, Undefined, TRUE, 200,
                        Message("Todos los servicios y citas eliminados con éxito."))

\* The calendar event of a cita
Evento(id, cita) ==
    [id |-> id, title |-> cita.title, start |-> cita.start, end |-> cita.end,
     extendedProps |-> [realizado |-> cita.realizado, paciente |-> cita.paciente,
                        auxiliar |-> cita.auxiliar],
     color |-> IF cita.realizado = Bool(TRUE) THEN "#007A4D" ELSE "#00AEEF"]

\* GET /api/agenda: the events by id (the order of the listing is the
\* store's and is not modelled).
GetAgenda(dbOk) ==
    /\ servicesIdle
    /\ UNCHANGED <<servicios, agenda, bulk, bulkLog, rep>>
    /\ resp' =
         IF ~dbOk THEN
             Response("GET /api/agenda", MalformedId, Undefined, dbOk, 500,
                      Message("Error al obtener agenda"))
         ELSE Response("GET /api/agenda", MalformedId, Undefined, dbOk, 200,
                       [id \in DOMAIN agenda |-> Evento(id, agenda[id])])

\* POST /api/agenda: every failure ends in the one catch and its 500.
PostAgenda(body, id, dbOk) ==
    LET newAgenda == NewAgenda(body) IN
    /\ servicesIdle
    /\ UNCHANGED <<servicios, bulk, rep>>
    /\ IF AgendaErrors(newAgenda) # {} \/ ~dbOk \/ id \in DOMAIN agenda THEN
           /\ resp' = Response("POST /api/agenda", id, body, dbOk, 500,
                               Message("Error de conexión con la base de datos o datos no válidos. Intenta de nuevo."))
           /\ UNCHANGED <<agenda, bulkLog>>
       ELSE
           /\ agenda' = With(agenda, id, newAgenda)
           /\ bulkLog' = IF bulk = "agenda deleted" THEN bulkLog \cup {"cita during"}
                         ELSE IF bulk = "idle" THEN {}
                         ELSE bulkLog
           /\ resp' = Response("POST /api/agenda", id, body, dbOk, 201, newAgenda)

\* The document after findByIdAndUpdate of the Agenda, which runs no validator
AgendaUpdate(cita, body) ==
    [path \in DOMAIN cita |-> IF body[path] = Undefined THEN cita[path] ELSE body[path]]

\* PATCH /api/agenda/:id: every failure ends in the one catch and its 400; an
\* id that is not in the store gives null, sent with the 200.
PatchAgenda(id, body, dbOk) ==
    LET found == FindById(agenda, id) IN
    /\ servicesIdle
    /\ UNCHANGED <<servicios, bulk, bulkLog, rep>>
    /\ IF ~WellFormed(id) \/ ~dbOk THEN
           /\ resp' = Response("PATCH /api/agenda/:id", id, body, dbOk, 400,
                               Message("Error al actualizar cita"))
           /\ UNCHANGED agenda
       ELSE IF found = Null THEN
           /\ resp' = Response("PATCH /api/agenda/:id", id, body, dbOk, 200, Null)
           /\ UNCHANGED agenda
       ELSE
           /\ agenda' = [agenda EXCEPT ![id] = AgendaUpdate(found, body)]
           /\ resp' = Response("PATCH /api/agenda/:id", id, body, dbOk, 200,
                               AgendaUpdate(found, body))

\* DELETE /api/agenda/:id: the result of findByIdAndDelete is not looked at.
DeleteAgenda(id, dbOk) ==
    /\ servicesIdle
    /\ UNCHANGED <<servicios, bulk, bulkLog, rep>>
    /\ IF ~WellFormed(id) \/ ~dbOk THEN
           /\ resp' = Response("DELETE /api/agenda/:id", id, Undefined, dbOk, 500,
                               Message("Error al eliminar cita"))
           /\ UNCHANGED agenda
       ELSE
           /\ agenda' = Without(agenda, id)
           /\ resp' = Response("DELETE /api/agenda/:id", id, Undefined, dbOk, 200,
                               Message("Cita eliminada con éxito"))

-----------------------------------------------------------------------------
(* The billing API: agenda and bulk delete *)

AgendaBase ==
    [title |-> Str(0, 5, 0), start |-> DateVal(1), end |-> Undefined,
     realizado |-> Undefined, paciente |-> Undefined, auxiliar |-> Undefined]

NoChange == [path \in DOMAIN AgendaBase |-> Undefined]

\* Bodies of POST /api/agenda: with and without the required title and start
AgendaBodies ==
    {[AgendaBase EXCEPT !.title = title, !.start = start] :
        title \in {Undefined, Str(0, 5, 0)}, start \in {Undefined, DateVal(1)}}

\* Bodies of PATCH /api/agenda/:id: mark as done, take the title out
AgendaPatches ==
    {[NoChange EXCEPT !.realizado = Bool(TRUE)], [NoChange EXCEPT !.title = Null]}

\* Bodies of POST /api/servicios next to the agenda: one the schema accepts
\* and one with a concepto out of the enum
PlainServicioBodies == {ServicioBase, [ServicioBase EXCEPT !.concepto = Word("Masaje")]}

\* The _id of the services made next to the agenda
PlainServicioIds == {1}

NextAgenda ==
    \/ \E body \in PlainServicioBodies, id \in PlainServicioIds, dbOk \in BOOLEAN :
           PostServicio(body, id, dbOk)
    \/ \E dbOk \in BOOLEAN : BulkDeleteServicios(dbOk)
    \/ \E dbOk \in BOOLEAN : BulkDeleteAgenda(dbOk)
    \/ BulkDeleteRespond
    \/ \E dbOk \in BOOLEAN : GetAgenda(dbOk)
    \/ \E body \in AgendaBodies, id \in ObjectIds, dbOk \in BOOLEAN :
           PostAgenda(body, id, dbOk)
    \/ \E id \in RequestIds, body \in AgendaPatches, dbOk \in BOOLEAN :
           PatchAgenda(id, body, dbOk)
    \/ \E id \in RequestIds, dbOk \in BOOLEAN : DeleteAgenda(id, dbOk)

SpecAgenda == Init /\ [][NextAgenda]_vars

-----------------------------------------------------------------------------
(* The billing API: services and their individual report *)

Extra == Actividad(Str(0, 8, 0), Num(2500))

\* Bodies of POST /api/servicios: base price given or left to its default,
\* total given or left to its default, none to two activities; and bodies
\* the schema refuses.
ReporteBodies ==
    {[ServicioBase EXCEPT !.precio = precio, !.total = total, !.actividades = actividades] :
        precio \in {Undefined, Num(20000)},
        total \in {Undefined, Num(25000)},
        actividades \in {<<>>, <<Extra>>, <<Extra, Extra>>}}
    \cup {[ServicioBase EXCEPT !.concepto = Word("Masaje")],
          [ServicioBase EXCEPT !.nombrePaciente = Undefined],
          [ServicioBase EXCEPT !.actividades = <<Actividad(Undefined, Num(2500))>>]}

NextReporte ==
    \/ \E body \in ReporteBodies, id \in ObjectIds, dbOk \in BOOLEAN :
           PostServicio(body, id, dbOk)
    \/ \E id \in RequestIds, dbOk \in BOOLEAN : ReporteIndividual(id, dbOk)

SpecReporte == Init /\ [][NextReporte]_vars

-----------------------------------------------------------------------------
(* GET /api/reporte/general *)

MaxServicios == 50         \* records in the collection when the report runs
MaxActividades == 3        \* itemized activities of a record

PageBottom == 550
PageTop == 50
RowPitch == 20

\* doc.y before and after the header row of the first page; PDFKit computes
\* them from the title and the fonts.
TableTops == {67}
FirstRowYs == {90, 91}

\* Totals of the records of the report
RowTotals == {0, 25000}

\* Mutant of ActividadesStr: every activity is counted as an addition.
ActividadesStrAll(n) ==
    IF n > 0 THEN [text |-> "adiciones", count |-> n] ELSE [text |-> "Ninguna"]

\* The cell 'Actividades Ad.' of a record with n activities:
\* `${n - 1} adiciones` or 'Ninguna'
ActividadesStr(n) ==
    IF n > 1 THEN [text |-> "adiciones", count |-> n - 1] ELSE [text |-> "Ninguna"]

\* Mutant of PastBottom: the page is left one row too late.
PastBottomLate(y) == y > PageBottom + RowPitch

\* if (y > 550)
PastBottom(y) == y > PageBottom

Draw(kind, page, y) == [kind |-> kind, page |-> page, y |-> y]

\* The handler after Servicio.find(): n records to write, nothing written.
ReportStart(n, tableTop, y0) ==
    [pc |-> "header", n |-> n, i |-> 0, tableTop |-> tableTop, y |-> y0, page |-> 1,
     draws |-> <<>>, row |-> <<>>, totalGeneral |-> 0, totalLine |-> <<>>]

InitGeneral ==
    /\ services = <<>>
    /\ resp = NoResponse
    /\ gone = {}
    /\ servicios = <<>>
    /\ agenda = <<>>
    /\ bulk = "idle"
    /\ bulkLog = {}
    /\ rep \in {ReportStart(n, tableTop, y0) :
                   n \in 0..MaxServicios, tableTop \in TableTops, y0 \in FirstRowYs}

reportOnly == UNCHANGED <<services, resp, gone, servicios, agenda, bulk, bulkLog>>

\* The title and the header row of the first page; let y = doc.y
GeneralHeader ==
    /\ rep.pc = "header"
    /\ reportOnly
    /\ rep' = [rep EXCEPT !.pc = "rows",
                          !.draws = <<Draw("header", 1, rep.tableTop)>>]

\* One turn of servicios.forEach, for a record with the given number of
\* activities and the given total: the row at y, y += 20, and past the
\* bottom a new page with the header row at 50 and y = 70.
GeneralRow(actividades, total) ==
    LET row == Draw("row", rep.page, rep.y)
        below == rep.y + RowPitch
    IN
    /\ rep.pc = "rows"
    /\ rep.i < rep.n
    /\ reportOnly
    /\ rep' = IF PastBottom(below) THEN
                  [rep EXCEPT !.i = @ + 1,
                              !.row = [actividades |-> actividades,
                                       cell |-> ActividadesStr(actividades)],
                              !.totalGeneral = @ + total,
                              !.page = @ + 1,
                              !.y = PageTop + RowPitch,
                              !.draws = @ \o <<row, Draw("header", rep.page + 1, PageTop)>>]
              ELSE
                  [rep EXCEPT !.i = @ + 1,
                              !.row = [actividades |-> actividades,
                                       cell |-> ActividadesStr(actividades)],
                              !.totalGeneral = @ + total,
                              !.y = below,
                              !.draws = @ \o <<row>>]

\* After the rows: the grand total and doc.end()
GeneralEnd ==
    /\ rep.pc = "rows"
    /\ rep.i = rep.n
    /\ reportOnly
    /\ rep' = [rep EXCEPT !.pc = "done",
                          !.totalLine = ToLocaleString(rep.totalGeneral)]

NextGeneral ==
    \/ GeneralHeader
    \/ \E actividades \in 0..MaxActividades, total \in RowTotals :
           GeneralRow(actividades, total)
    \/ GeneralEnd

SpecGeneral == InitGeneral /\ [][NextGeneral]_vars

-----------------------------------------------------------------------------
(* Properties of the billing API *)

\* C2, as stated: whenever DELETE /api/servicios completes, with its 200 or
\* with its second deleteMany failing, both collections are empty, and a GET
\* /api/agenda after its 200 with no cita made in between returns no event.
C2_BulkAlwaysEmptiesBoth ==
    /\ (/\ resp.op = "DELETE /api/servicios"
        /\ \/ (resp.status = 200 /\ "completed" \in bulkLog)
           \/ (resp.status = 500 /\ resp.json.error = {"Agenda.deleteMany"}))
       => (servicios = <<>> /\ agenda = <<>>)
    /\ (/\ resp.op = "GET /api/agenda"
        /\ resp.dbOk
        /\ "completed" \in bulkLog)
       => resp.json = <<>>

\* C2, amended: when DELETE /api/servicios responds 200 and no POST stored a
\* document in a collection between the deleteMany of that collection and
\* the 200, both collections are empty at the 200, and a GET /api/agenda
\* after it with no cita made in between returns no event.
C2_BulkEmptiesBothUndisturbed ==
    /\ (/\ resp.op = "DELETE /api/servicios"
        /\ resp.status = 200
        /\ "completed" \in bulkLog
        /\ bulkLog \cap {"servicio during", "cita during"} = {})
       => (servicios = <<>> /\ agenda = <<>>)
    /\ (/\ resp.op = "GET /api/agenda"
        /\ resp.dbOk
        /\ "completed" \in bulkLog
        /\ "cita during" \notin bulkLog)
       => resp.json = <<>>

\* The agenda was listed empty after a bulk delete that found documents in
\* both collections.
C2_Witness ==
    /\ resp.op = "GET /api/agenda"
    /\ resp.status = 200
    /\ resp.json = <<>>
    /\ {"had servicios", "had citas", "completed"} \subseteq bulkLog
    /\ "cita during" \notin bulkLog

RECURSIVE SumPrecios(_)
SumPrecios(actividades) ==
    IF actividades = <<>> THEN 0
    ELSE OrZero(Head(actividades).precio) + SumPrecios(Tail(actividades))

\* C7: the total line of the individual report of a stored record is its
\* base price plus the prices of its itemized activities.
C7_TotalIsBasePlusActivities ==
    (/\ resp.op = "GET /api/reporte/individual/:id"
     /\ resp.status = 200
     /\ resp.id \in DOMAIN servicios)
    => resp.json.total =
          ToLocaleString(OrZero(servicios[resp.id].precio)
                         + SumPrecios(servicios[resp.id].actividades))

\* C10: deleting a well-formed id that is not in the store responds 404 and
\* leaves the store unchanged, for the services and for the agenda.
C10_DeleteAbsentIsNotFound ==
    [][/\ (/\ resp'.op = "DELETE /api/services/:id"
           /\ WellFormed(resp'.id)
           /\ resp'.dbOk
           /\ resp'.id \notin DOMAIN services)
          => (resp'.status = 404 /\ services' = services)
       /\ (/\ resp'.op = "DELETE /api/agenda/:id"
           /\ WellFormed(resp'.id)
           /\ resp'.dbOk
           /\ resp'.id \notin DOMAIN agenda)
          => (resp'.status = 404 /\ agenda' = agenda)]_vars

-----------------------------------------------------------------------------
(* Properties of the general report *)

\* C8: the cell of a record with n activities is 'Ninguna' for n = 0 and
\* n = 1, and n - 1 additions for n > 1: 2 additions for 3 activities.
C8_AdditionalActivities ==
    rep.row # <<>>
    => /\ rep.row.actividades \in {0, 1} => rep.row.cell = [text |-> "Ninguna"]
       /\ rep.row.actividades > 1
          => rep.row.cell = [text |-> "adiciones", count |-> rep.row.actividades - 1]
       /\ rep.row.actividades = 3 => rep.row.cell.count = 2

\* The row of a record with 3 activities was written.
C8_Witness ==
    /\ rep.row # <<>>
    /\ rep.row.actividades = 3
    /\ rep.row.cell = [text |-> "adiciones", count |-> 2]

Rows == {k \in DOMAIN rep.draws : rep.draws[k].kind = "row"}

HeaderAbove(k) ==
    \E h \in 1..(k - 1) :
        /\ rep.draws[h].kind = "header"
        /\ rep.draws[h].page = rep.draws[k].page
        /\ rep.draws[h].y < rep.draws[k].y

HasRow(page) == \E k \in Rows : rep.draws[k].page = page

\* Every row is on a page with a header row above it and not beyond the
\* bottom, and between two rows the cursor is not beyond the bottom.
RowsWithinPages ==
    /\ \A k \in Rows : rep.draws[k].y <= PageBottom /\ HeaderAbove(k)
    /\ rep.pc = "rows" => rep.y <= PageBottom

-----------------------------------------------------------------------------
(* Persisted documents *)

\* The declared constraints of a Service record: a non-empty patientName of
\* at most 100 characters, a visitDate, a price >= 0
ServiceWithinSchema(doc) ==
    /\ doc.patientName.k = "string"
    /\ StrLength(doc.patientName) > 0
    /\ StrLength(doc.patientName) <= 100
    /\ doc.visitDate.k = "date"
    /\ doc.price.k = "number"
    /\ doc.price.n >= 0

\* The declared constraints of an Agenda entry: a title and a start
CitaWithinSchema(cita) ==
    /\ cita.title.k = "string"
    /\ StrLength(cita.title) > 0
    /\ cita.start.k = "date"

\* C11: after any sequence of create, update and delete requests from the
\* empty store, every Service record and every Agenda entry in the store
\* satisfies its declared constraints; no PUT /api/services/:id and no PATCH
\* /api/agenda/:id writes a document that violates them.
C11_PersistedDocumentsWithinSchema ==
    /\ \A id \in DOMAIN services : ServiceWithinSchema(services[id])
    /\ \A id \in DOMAIN agenda : CitaWithinSchema(agenda[id])

=============================================================================
